---- MODULE Spec2Model ----
(***************************************************************************)
(* WiFi Connector (Raycast extension): the network cache, the load and     *)
(* refresh hook, the connect handler of the command and the connection     *)
(* service (connectToNetwork, tryConnectWithSavedPassword).                *)
(*                                                                         *)
(* Conventions.  An optional value (null, undefined) is a sequence of      *)
(* length at most one: None or Some(v).  A text (a password, an error      *)
(* text, a message) is a sequence of strings: a password is a sequence of  *)
(* characters, an error text a sequence of words.  An optional boolean     *)
(* field of a result that the code leaves undefined is FALSE.              *)
(***************************************************************************)
EXTENDS Integers, Sequences, FiniteSets, TLC

None == <<>>
Some(v) == <<v>>

\* ---------------------------------------------------------------- bounds
\* How many times the clock advances in one behaviour.
MaxTicks == 2
\* Longest password the user types or a store holds.
MaxPwLen == 1
\* The longest network name, in characters.
MaxSsidLen == 2

\* ------------------------------------------------------ program constants
CACHE_VERSION == 3
CACHE_DURATION == 5000

\* The clock advances by one of these amounts (ms): the ages 1, 4999, 5000
\* and beyond are all reached.
TickSteps == {1, CACHE_DURATION - 1}

\* The wifiInterface preference, at its default.
wifiInterface == "en0"

\* ------------------------------------------------------------------ data
\* A WiFiNetwork record.
Net(ssid, rssi, security, channel, isConnected) ==
  [ssid |-> ssid, rssi |-> rssi, security |-> security, channel |-> channel,
   bssid |-> <<ssid, "-", channel>>, isConnected |-> isConnected]

\* What one run of the scan can return: two reports of visible networks and
\* the empty result the scan substitutes when the command fails.
ScanResults ==
  { [currentNetwork |-> "HomeNet",
     availableNetworks |-> << Net("HomeNet", -40, "WPA2 Personal", "36", TRUE),
                              Net("CafeWifi", -60, "Open", "6", FALSE),
                              Net("Plaza", -70, "None", "11", FALSE) >>],
    [currentNetwork |-> "",
     availableNetworks |-> << Net("Mall", -50, "OPEN", "1", FALSE),
                              Net("Depot", -55, "open", "1", FALSE) >>],
    [currentNetwork |-> "", availableNetworks |-> << >>] }

SeqToSet(s) == { s[i] : i \in DOMAIN s }

Networks == UNION { SeqToSet(r.availableNetworks) : r \in ScanResults }

SSIDs == { n.ssid : n \in Networks }

\* ----------------------------------------------------------------- state
VARIABLES
  now,              \* Date.now()
  ticks,            \* how many times the clock has advanced
  cacheSlot,        \* the Cache entry under CACHE_KEY: None or Some(JSON text)
  lastWrite,        \* history: the arguments and time of the write the slot holds
  preConnection,    \* history: the slot was written before the latest successful connect
  mounted,          \* the command's mount effect has run
  networks,         \* useWiFiNetworks: networks
  currentSSID,      \* useWiFiNetworks: currentSSID
  isLoading,        \* useWiFiNetworks: isLoading
  lastLoad,         \* history: what the latest loadNetworks did
  selectedNetwork,  \* Command: selectedNetwork (the password form is shown for it)
  toast,            \* the latest toast shown
  conn,             \* the handleConnect call in flight, or the latest one
  localStorage,     \* LocalStorage under STORAGE_KEY_PREFIX: ssid -> None or Some(password)
  call,             \* the latest call of the connection service made directly
  profiler,         \* what system_profiler does when the scan runs it
  scanned,          \* history: the latest run of the scan and what it returned
  qrCodeData,       \* Command: qrCodeData (the QR view is shown for it)
  share,            \* the handleShareQRCode call in flight, or the latest one
  form              \* PasswordForm: the password field as fetchFromKeychain left it

vars == <<now, ticks, cacheSlot, lastWrite, preConnection, mounted, networks,
          currentSSID, isLoading, lastLoad, selectedNetwork, toast, conn,
          localStorage, call, profiler, scanned, qrCodeData, share, form>>

\* ----------------------------------------------------------------- cache
\* JSON.stringify(data) of a CachedData: the members in the order of the
\* object literal.
JSONstringify(data) ==
  << <<"version", data.version>>, <<"networks", data.networks>>,
     <<"currentSSID", data.currentSSID>>, <<"timestamp", data.timestamp>> >>

\* JSON.parse of such a text.
JSONparse(text) ==
  [version |-> text[1][2], networks |-> text[2][2],
   currentSSID |-> text[3][2], timestamp |-> text[4][2]]

getCachedNetworksStale(slot, clock) ==
  IF slot = None THEN None
  ELSE LET parsed == JSONparse(slot[1])
           cacheAge == clock - parsed.timestamp
       IN IF parsed.version = CACHE_VERSION /\ cacheAge <= CACHE_DURATION
          THEN Some(parsed) ELSE None

getCachedNetworks(slot, clock) ==
  IF slot = None THEN None
  ELSE LET parsed == JSONparse(slot[1])
           cacheAge == clock - parsed.timestamp
       IN IF parsed.version = CACHE_VERSION /\ cacheAge < CACHE_DURATION
          THEN Some(parsed) ELSE None

setCachedNetworksUnstamped(nets, current, clock) ==
  Some(JSONstringify([version |-> CACHE_VERSION, networks |-> nets,
                      currentSSID |-> current, timestamp |-> clock - CACHE_DURATION]))

setCachedNetworks(nets, current, clock) ==
  Some(JSONstringify([version |-> CACHE_VERSION, networks |-> nets,
                      currentSSID |-> current, timestamp |-> clock]))

clearNetworksCacheKeep(slot) == slot

clearNetworksCache(slot) == None

\* ------------------------------------------------------------ the hook
\* loadNetworks, run on the slot as it is at the call (slot), the scan
\* returning scan if it is reached.
loadNetworks(slot, scan) ==
  LET cachedData == getCachedNetworks(slot, now)
  IN IF cachedData # None
     THEN /\ networks' = cachedData[1].networks
          /\ currentSSID' = cachedData[1].currentSSID
          /\ isLoading' = FALSE
          /\ cacheSlot' = slot
          /\ lastWrite' = lastWrite
          /\ preConnection' = preConnection
          /\ lastLoad' = [from |-> "cache", stale |-> preConnection,
                          hadFresh |-> getCachedNetworks(cacheSlot, now) # None]
     ELSE /\ currentSSID' = scan.currentNetwork
          /\ networks' = scan.availableNetworks
          /\ cacheSlot' = setCachedNetworks(scan.availableNetworks, scan.currentNetwork, now)
          /\ lastWrite' = Some([networks |-> scan.availableNetworks,
                                currentSSID |-> scan.currentNetwork,
                                at |-> now, version |-> CACHE_VERSION])
          /\ preConnection' = FALSE
          /\ isLoading' = FALSE
          /\ lastLoad' = [from |-> "scan", stale |-> FALSE,
                          hadFresh |-> getCachedNetworks(cacheSlot, now) # None]

\* The mount effect of the command: loadNetworks().
Mount ==
  /\ ~mounted
  /\ mounted' = TRUE
  /\ \E scan \in ScanResults : loadNetworks(cacheSlot, scan)
  /\ UNCHANGED <<now, ticks, selectedNetwork, toast, conn, localStorage, form, call,
                 profiler, scanned, qrCodeData, share>>

Toast(style, title, message) == [style |-> style, title |-> title, message |-> message]

\* forceRefresh: the Refresh Networks action of the list.
ForceRefresh ==
  /\ mounted
  /\ selectedNetwork = None
  /\ qrCodeData = None
  /\ \E scan \in ScanResults :
       loadNetworks(clearNetworksCache(cacheSlot), scan)
  /\ toast' = Toast("Success", <<"Networks Refreshed">>, <<>>)
  /\ UNCHANGED <<now, ticks, mounted, selectedNetwork, conn, localStorage, form, call,
                 profiler, scanned, qrCodeData, share>>

\* Time passes.
Tick ==
  /\ ticks < MaxTicks
  /\ \E d \in TickSteps : now' = now + d
  /\ ticks' = ticks + 1
  /\ UNCHANGED <<cacheSlot, lastWrite, preConnection, mounted, networks, currentSSID,
                 isLoading, lastLoad, selectedNetwork, toast, conn, localStorage, form, call,
                 profiler, scanned, qrCodeData, share>>

\* ------------------------------------------------- the connection service
\* The characters a password is made of: a plain one, and the ones the shell
\* treats specially inside double quotes.
\* The backtick character is written by its name.
Backtick == "backtick"
PwChars == {"a", "\"", "$", "\\"}

SeqsUpTo(S, n) == UNION { [1..k -> S] : k \in 0..n }

\* Every password text: the empty one included.
Passwords == SeqsUpTo(PwChars, MaxPwLen)

\* A JavaScript string used as a condition: undefined, null and "" are falsy.
Truthy(opt) == opt # None /\ opt[1] # <<>>

\* s.replace(/c/g, "\\c"): a backslash put before every occurrence of c.
RECURSIVE ReplaceAll(_, _)
ReplaceAll(s, c) ==
  IF s = <<>> THEN <<>>
  ELSE (IF Head(s) = c THEN <<"\\", c>> ELSE <<Head(s)>>) \o ReplaceAll(Tail(s), c)

\* The escapedPassword of connectToNetwork.
EscapePassword(password) ==
  ReplaceAll(ReplaceAll(ReplaceAll(password, "\""), "$"), Backtick)

\* What /bin/sh makes of the text put between the two double quotes of the
\* password argument, reading text from position i on with acc read so far.
\* A backslash quotes a following double quote, dollar, backtick or backslash
\* and stays itself before anything else; a bare double quote closes the
\* argument, so anything after it is another word; a bare dollar or backtick
\* starts an expansion; the closing quote the command adds is the last
\* character of text.
RECURSIVE ShellQuoted(_, _, _)
ShellQuoted(text, i, acc) ==
  IF i > Len(text) THEN [status |-> "unterminated", arg |-> acc]
  ELSE IF text[i] = "\\"
       THEN IF i = Len(text) THEN [status |-> "unterminated", arg |-> acc]
            ELSE IF text[i + 1] \in {"\"", "$", Backtick, "\\"}
                 THEN ShellQuoted(text, i + 2, Append(acc, text[i + 1]))
                 ELSE ShellQuoted(text, i + 1, Append(acc, "\\"))
  ELSE IF text[i] = "\""
       THEN IF i = Len(text) THEN [status |-> "ok", arg |-> acc]
            ELSE [status |-> "split", arg |-> acc]
  ELSE IF text[i] \in {"$", Backtick}
       THEN [status |-> "expansion", arg |-> acc]
  ELSE ShellQuoted(text, i + 1, Append(acc, text[i]))

\* What /bin/sh makes of a word of the command written without quotes,
\* reading text from position i on: a backslash quotes the character after
\* it, or the space that ends the word; a double quote opens a quoted text
\* that runs into the rest of the command; a dollar or backtick starts an
\* expansion.
RECURSIVE ShellWord(_, _, _)
ShellWord(text, i, acc) ==
  IF i > Len(text) THEN [status |-> "ok", arg |-> acc]
  ELSE IF text[i] = "\\"
       THEN IF i = Len(text) THEN [status |-> "joined", arg |-> acc]
            ELSE ShellWord(text, i + 2, Append(acc, text[i + 1]))
  ELSE IF text[i] = "\""
       THEN [status |-> "quote", arg |-> acc]
  ELSE IF text[i] \in {"$", Backtick}
       THEN [status |-> "expansion", arg |-> acc]
  ELSE ShellWord(text, i + 1, Append(acc, text[i]))

\* The names a network can broadcast and the texts the wifiInterface
\* preference can hold, as characters.
SsidTexts == SeqsUpTo(PwChars, MaxSsidLen) \ {<<>>}

InterfaceTexts == { <<"e", "n", "0">> } \cup { <<"e", c>> : c \in PwChars }

\* What the shell reads where the connect command of connectToNetwork has
\* ${wifiInterface} "${network.ssid}".
ConnectCommandRead(iface, ssid) ==
  [interface |-> ShellWord(iface, 1, <<>>),
   ssid |-> ShellQuoted(Append(ssid, "\""), 1, <<>>)]

\* JSON.stringify(ssid) between its two double quotes: a backslash put
\* before every backslash and every double quote.
JSONstringifyString(ssid) == ReplaceAll(ReplaceAll(ssid, "\\"), "\"")

\* What the shell reads where the Keychain lookup has
\* ${JSON.stringify(ssid)}.
LookupCommandRead(ssid) ==
  ShellQuoted(Append(JSONstringifyString(ssid), "\""), 1, <<>>)

\* The arguments networksetup is started with by execSync(command), or none
\* when the shell cannot read the command.
ShellArguments(command) ==
  IF command.password = None
  THEN [started |-> TRUE, ssid |-> command.ssid, password |-> None]
  ELSE LET read == ShellQuoted(Append(command.password[1], "\""), 1, <<>>)
       IN IF read.status = "ok"
          THEN [started |-> TRUE, ssid |-> command.ssid, password |-> Some(read.arg)]
          ELSE IF read.status = "unterminated"
               THEN [started |-> FALSE, ssid |-> command.ssid, password |-> None]
               ELSE [started |-> TRUE, ssid |-> command.ssid,
                     password |-> Some(Append(read.arg, read.status))]

\* The texts String(error) can be when execSync throws, as words.
ErrorTexts ==
  { <<"Error:", "spawnSync", "/bin/sh", "ETIMEDOUT">>,
    <<"Error:", "Command", "failed:", "network">>,
    <<"Error:", "Command", "failed:", "not found">>,
    <<"Error:", "Command", "failed:", "network", "password">>,
    <<"Error:", "Command", "failed:", "network", "authentication">> }


\* errorMsg.includes(word)
Includes(errorMsg, word) == \E i \in DOMAIN errorMsg : errorMsg[i] = word

\* What execSync(command) can do: return, or throw an error whose text is one
\* of ErrorTexts.  A command the shell cannot read never returns normally.
ExecOutcomes(command) ==
  { [ok |-> FALSE, error |-> e] : e \in ErrorTexts }
    \cup (IF ShellArguments(command).started THEN { [ok |-> TRUE, error |-> <<>>] } ELSE {})

Result(success, message, requiresPassword, usedSavedPassword) ==
  [success |-> success, message |-> message,
   requiresPassword |-> requiresPassword, usedSavedPassword |-> usedSavedPassword]

isOpenNetwork(network) ==
  network.security = "Open" \/ network.security = "OPEN" \/ network.security = "None"

\* The catch block of connectToNetwork.
ClassifyErrorNetworkFirst(errorMsg) ==
  IF Includes(errorMsg, "network") \/ Includes(errorMsg, "not found")
  THEN Result(FALSE, <<"Network not available">>, FALSE, FALSE)
  ELSE IF Includes(errorMsg, "password") \/ Includes(errorMsg, "authentication")
       THEN Result(FALSE, <<"Incorrect password or authentication failed">>, FALSE, FALSE)
       ELSE Result(FALSE, errorMsg, FALSE, FALSE)

ClassifyError(errorMsg) ==
  IF Includes(errorMsg, "password") \/ Includes(errorMsg, "authentication")
  THEN Result(FALSE, <<"Incorrect password or authentication failed">>, FALSE, FALSE)
  ELSE IF Includes(errorMsg, "network") \/ Includes(errorMsg, "not found")
       THEN Result(FALSE, <<"Network not available">>, FALSE, FALSE)
       ELSE Result(FALSE, errorMsg, FALSE, FALSE)

\* execSync(command) and what follows it in connectToNetwork; exec is what
\* execSync does.  osCalls lists the commands started and what they received.
RunCommand(network, command, exec) ==
  [result |-> IF exec.ok
              THEN Result(TRUE, <<"Connected to", network.ssid>>, FALSE, FALSE)
              ELSE ClassifyError(exec.error),
   osCalls |-> << [command |-> command, received |-> ShellArguments(command)] >>,
   error |-> IF exec.ok THEN None ELSE Some(exec.error)]

\* The command connectToNetwork builds: None when it builds none.
BuildCommand(network, iface, password) ==
  IF isOpenNetwork(network)
  THEN Some([interface |-> iface, ssid |-> network.ssid, password |-> None])
  ELSE IF Truthy(password)
       THEN Some([interface |-> iface, ssid |-> network.ssid,
                  password |-> Some(EscapePassword(password[1]))])
       ELSE None

\* connectToNetwork(network, wifiInterface, password): password is None when
\* the argument is left out.
connectToNetwork(network, iface, password, exec) ==
  LET command == BuildCommand(network, iface, password)
  IN IF command = None
     THEN [result |-> Result(FALSE, <<"Password required for this network">>, TRUE, FALSE),
           osCalls |-> <<>>, error |-> None]
     ELSE RunCommand(network, command[1], exec)

\* The outcomes execSync can have in connectToNetwork(network, iface, password).
ConnectOutcomes(network, iface, password) ==
  LET command == BuildCommand(network, iface, password)
  IN IF command = None THEN { [ok |-> FALSE, error |-> <<>>] } ELSE ExecOutcomes(command[1])

\* ------------------------------------------------------ saved passwords
\* getSavedPassword(ssid): LocalStorage.getItem, then password || null.
getSavedPassword(storage, ssid) ==
  IF Truthy(storage[ssid]) THEN storage[ssid] ELSE None

\* The password tryConnectWithSavedPassword hands to connectToNetwork.
SavedPasswordFor(network, storage) ==
  IF isOpenNetwork(network) THEN None ELSE getSavedPassword(storage, network.ssid)

tryConnectReportsRawFailure(network, iface, storage, exec) ==
  LET r == connectToNetwork(network, iface, SavedPasswordFor(network, storage), exec)
  IN [result |-> [r.result EXCEPT !.usedSavedPassword = r.result.success],
      osCalls |-> r.osCalls, error |-> r.error,
      lookups |-> IF isOpenNetwork(network) THEN <<>> ELSE <<network.ssid>>]

tryConnectWithoutPassword(network, iface, storage, exec) ==
  LET command == [interface |-> iface, ssid |-> network.ssid,
                  password |-> IF Truthy(SavedPasswordFor(network, storage))
                               THEN Some(EscapePassword(SavedPasswordFor(network, storage)[1]))
                               ELSE None]
      r == RunCommand(network, command, exec)
  IN [result |-> r.result, osCalls |-> r.osCalls, error |-> r.error,
      lookups |-> IF isOpenNetwork(network) THEN <<>> ELSE <<network.ssid>>]

\* tryConnectWithSavedPassword(network, wifiInterface); lookups lists the
\* ssids LocalStorage was asked for.
tryConnectWithSavedPassword(network, iface, storage, exec) ==
  IF isOpenNetwork(network)
  THEN [lookups |-> <<>>] @@ connectToNetwork(network, iface, None, exec)
  ELSE LET savedPassword == getSavedPassword(storage, network.ssid)
       IN IF Truthy(savedPassword)
          THEN LET r == connectToNetwork(network, iface, savedPassword, exec)
               IN IF r.result.success
                  THEN [result |-> [r.result EXCEPT !.usedSavedPassword = TRUE],
                        osCalls |-> r.osCalls, error |-> r.error,
                        lookups |-> <<network.ssid>>]
                  ELSE [result |-> Result(FALSE, <<"Saved password didn't work">>, TRUE, FALSE),
                        osCalls |-> r.osCalls, error |-> r.error,
                        lookups |-> <<network.ssid>>]
          ELSE [result |-> Result(FALSE, <<"Password required for this network">>, TRUE, FALSE),
                osCalls |-> <<>>, error |-> None, lookups |-> <<network.ssid>>]

\* ----------------------------------------------------------- the command
NoConn ==
  [at |-> "idle", network |-> None, password |-> None, prompted |-> FALSE,
   osCalls |-> <<>>, lookups |-> <<>>, result |-> None, error |-> None]

handleConnectEntrySavedFirst(network, password) ==
  LET prompt == ~Truthy(password)
                /\ network.security # "Open" /\ network.security # "OPEN"
  IN [prompt |-> prompt,
      lookups |-> IF prompt THEN <<network.ssid>> ELSE <<>>, osCalls |-> <<>>]

\* The first lines of handleConnect: whether the password form is shown
\* instead of connecting, with the store lookups and the commands run up to
\* there (none).
handleConnectEntry(network, password) ==
  [prompt |-> ~Truthy(password)
              /\ network.security # "Open" /\ network.security # "OPEN",
   lookups |-> <<>>, osCalls |-> <<>>]

\* handleConnect(network, password) up to its first await.
HandleConnect(network, password) ==
  /\ conn.at \in {"idle", "done"}
  /\ LET entry == handleConnectEntry(network, password)
     IN IF entry.prompt
        THEN /\ selectedNetwork' = Some(network)
             /\ conn' = [NoConn EXCEPT !.at = "done", !.network = Some(network),
                                       !.password = password, !.prompted = TRUE,
                                       !.lookups = entry.lookups, !.osCalls = entry.osCalls]
             /\ toast' = toast
        ELSE /\ toast' = Toast("Animated", <<"Connecting to", network.ssid, "...">>, <<>>)
             /\ conn' = [NoConn EXCEPT !.at = "connecting", !.network = Some(network),
                                       !.password = password,
                                       !.lookups = entry.lookups, !.osCalls = entry.osCalls]
             /\ selectedNetwork' = selectedNetwork
  /\ UNCHANGED <<now, ticks, cacheSlot, lastWrite, preConnection, mounted, networks,
                 currentSSID, isLoading, lastLoad, localStorage, form, call,
                 profiler, scanned, qrCodeData, share>>

\* The Connect action of a list item: handleConnect(network).
ConnectFromList ==
  /\ mounted
  /\ selectedNetwork = None
  /\ qrCodeData = None
  /\ \E i \in DOMAIN networks : HandleConnect(networks[i], None)

\* The password form as it is mounted: useState(""), no fetchFromKeychain
\* made yet.  fetched is what the lookup printed, focus the commands run to
\* bring Raycast back to the front.
NoForm ==
  [at |-> "idle", password |-> <<>>, fetched |-> None, focus |-> <<>>]

IsBlankOnlyWhenEmpty(password) == password = <<>>

\* password.trim() is empty.
IsBlank(password) == \A i \in DOMAIN password : password[i] = " "

\* What the password field of the form can hold: a password, or one space.
FormInputs == Passwords \cup { <<" ">> }

\* handleSubmit of the password form, the field holding password.
HandleSubmit ==
  /\ selectedNetwork # None
  /\ \E password \in FormInputs :
       IF IsBlank(password)
       THEN /\ toast' = Toast("Failure", <<"Password Required">>, <<"Please enter a password">>)
            /\ UNCHANGED <<now, ticks, cacheSlot, lastWrite, preConnection, mounted,
                           networks, currentSSID, isLoading, lastLoad, selectedNetwork,
                           conn, localStorage, form, call,
                 profiler, scanned, qrCodeData, share>>
       ELSE HandleConnect(selectedNetwork[1], Some(password))

\* handleCancelPassword
HandleCancelPassword ==
  /\ selectedNetwork # None
  /\ selectedNetwork' = None
  /\ form' = NoForm
  /\ UNCHANGED <<now, ticks, cacheSlot, lastWrite, preConnection, mounted, networks,
                 currentSSID, isLoading, lastLoad, toast, conn, localStorage, call,
                 profiler, scanned, qrCodeData, share>>

ConnectStepSilent ==
  /\ conn.at = "connecting"
  /\ \E exec \in ConnectOutcomes(conn.network[1], wifiInterface, conn.password) :
       LET r == connectToNetwork(conn.network[1], wifiInterface, conn.password, exec)
       IN /\ conn' = [conn EXCEPT !.result = Some(r.result), !.osCalls = r.osCalls,
                                  !.error = r.error,
                                  !.at = IF r.result.success THEN "succeeded" ELSE "done"]
          /\ toast' = toast
          /\ preConnection' = IF r.result.success THEN cacheSlot # None ELSE preConnection
  /\ UNCHANGED <<now, ticks, cacheSlot, lastWrite, mounted, networks, currentSSID,
                 isLoading, lastLoad, selectedNetwork, localStorage, form, call,
                 profiler, scanned, qrCodeData, share>>

\* handleConnect from connectToNetwork to the toast that reports its result.
ConnectStep ==
  /\ conn.at = "connecting"
  /\ \E exec \in ConnectOutcomes(conn.network[1], wifiInterface, conn.password) :
       LET r == connectToNetwork(conn.network[1], wifiInterface, conn.password, exec)
       IN /\ conn' = [conn EXCEPT !.result = Some(r.result), !.osCalls = r.osCalls,
                                  !.error = r.error,
                                  !.at = IF r.result.success THEN "succeeded" ELSE "done"]
          /\ toast' = IF r.result.success
                      THEN Toast("Success", r.result.message, <<>>)
                      ELSE Toast("Failure", <<"Connection Failed">>, r.result.message)
          /\ preConnection' = IF r.result.success THEN cacheSlot # None ELSE preConnection
  /\ UNCHANGED <<now, ticks, cacheSlot, lastWrite, mounted, networks, currentSSID,
                 isLoading, lastLoad, selectedNetwork, localStorage, form, call,
                 profiler, scanned, qrCodeData, share>>

FinishConnectSavingPassword ==
  /\ conn.at = "succeeded"
  /\ \E scan \in ScanResults :
       loadNetworks(clearNetworksCache(cacheSlot), scan)
  /\ selectedNetwork' = None
  /\ form' = NoForm
  /\ conn' = [conn EXCEPT !.at = "done"]
  /\ localStorage' = IF conn.password # None
                     THEN [localStorage EXCEPT ![conn.network[1].ssid] = conn.password]
                     ELSE localStorage
  /\ UNCHANGED <<now, ticks, mounted, toast, call,
                 profiler, scanned, qrCodeData, share>>

\* handleConnect after the success toast: clear the cache, reload, close the form.
FinishConnect ==
  /\ conn.at = "succeeded"
  /\ \E scan \in ScanResults :
       loadNetworks(clearNetworksCache(cacheSlot), scan)
  /\ selectedNetwork' = None
  /\ form' = NoForm
  /\ conn' = [conn EXCEPT !.at = "done"]
  /\ UNCHANGED <<now, ticks, mounted, toast, localStorage, call,
                 profiler, scanned, qrCodeData, share>>

\* ------------------------------------------------ the service, called directly
\* The functions keep no state between calls: one call is made at a time and
\* its record is dropped when the caller has taken the result.
NoCall ==
  [op |-> "none", network |-> None, password |-> None, osCalls |-> <<>>,
   lookups |-> <<>>, result |-> None, error |-> None]

\* A call of tryConnectWithSavedPassword(network, wifiInterface).
TryConnectWithSavedPassword ==
  /\ call.op = "none"
  /\ \E network \in Networks :
       \E exec \in ConnectOutcomes(network, wifiInterface,
                                   SavedPasswordFor(network, localStorage)) :
         LET r == tryConnectWithSavedPassword(network, wifiInterface, localStorage, exec)
         IN call' = [op |-> "tryConnectWithSavedPassword", network |-> Some(network),
                     password |-> None, osCalls |-> r.osCalls, lookups |-> r.lookups,
                     result |-> Some(r.result), error |-> r.error]
  /\ UNCHANGED <<now, ticks, cacheSlot, lastWrite, preConnection, mounted, networks,
                 currentSSID, isLoading, lastLoad, selectedNetwork, toast, conn,
                 localStorage, form,
                 profiler, scanned, qrCodeData, share>>

\* A call of connectToNetwork(network, wifiInterface, password?).
ConnectToNetwork ==
  /\ call.op = "none"
  /\ \E network \in Networks :
       \E password \in {None} \cup { Some(p) : p \in Passwords } :
         \E exec \in ConnectOutcomes(network, wifiInterface, password) :
           LET r == connectToNetwork(network, wifiInterface, password, exec)
           IN call' = [op |-> "connectToNetwork", network |-> Some(network),
                       password |-> password, osCalls |-> r.osCalls, lookups |-> <<>>,
                       result |-> Some(r.result), error |-> r.error]
  /\ UNCHANGED <<now, ticks, cacheSlot, lastWrite, preConnection, mounted, networks,
                 currentSSID, isLoading, lastLoad, selectedNetwork, toast, conn,
                 localStorage, form,
                 profiler, scanned, qrCodeData, share>>

\* connectToNetwork building its command for an open network of any name,
\* with any interface preference: the texts interpolated and what the shell
\* reads for each.
BuildConnectCommand ==
  /\ call.op = "none"
  /\ \E iface \in InterfaceTexts, ssid \in SsidTexts :
       call' = [NoCall EXCEPT
                  !.op = "connectCommand",
                  !.osCalls = << [command |-> [interface |-> iface, ssid |-> ssid],
                                  received |-> ConnectCommandRead(iface, ssid)] >>]
  /\ UNCHANGED <<now, ticks, cacheSlot, lastWrite, preConnection, mounted, networks,
                 currentSSID, isLoading, lastLoad, selectedNetwork, toast, conn,
                 localStorage, form,
                 profiler, scanned, qrCodeData, share>>

\* The Keychain lookup of fetchPasswordFromKeychain and of the password form
\* building its command for a network of any name.
BuildLookupCommand ==
  /\ call.op = "none"
  /\ \E ssid \in SsidTexts :
       call' = [NoCall EXCEPT
                  !.op = "lookupCommand",
                  !.lookups = << [command |-> [ssid |-> ssid],
                                  received |-> [ssid |-> LookupCommandRead(ssid)]] >>]
  /\ UNCHANGED <<now, ticks, cacheSlot, lastWrite, preConnection, mounted, networks,
                 currentSSID, isLoading, lastLoad, selectedNetwork, toast, conn,
                 localStorage, form,
                 profiler, scanned, qrCodeData, share>>

\* The caller takes the result of the call.
TakeResult ==
  /\ call.op # "none"
  /\ call' = NoCall
  /\ UNCHANGED <<now, ticks, cacheSlot, lastWrite, preConnection, mounted, networks,
                 currentSSID, isLoading, lastLoad, selectedNetwork, toast, conn,
                 localStorage, form,
                 profiler, scanned, qrCodeData, share>>

\* ----------------------------------------------------------- the scanner
\* The text system_profiler prints is a sequence of lines; a line is its
\* leading spaces (indent) and the rest, trimmed: a sequence of tokens.  The
\* tokens are the labels, names and values of the report, the space between
\* two values, and the colon: ":" at the end of a line, ": " inside it.
Line(indent, text) == [indent |-> indent, text |-> text]

ColonTokens == {":", ": "}

\* The tokens that do not start with a letter, a digit, "-" or "_".
PunctuationTokens == {":", ": ", " ", "(5GHz, 80MHz)", " dBm / ", " dBm"}

\* The first run of digits in a token, with the sign before it: the match of
\* /-?\d+/ read by parseInt.
parseInt(token) ==
  CASE token = "-40" -> Some(-40)
    [] token = "-60" -> Some(-60)
    [] token = "-90" -> Some(-90)
    [] token = "0" -> Some(0)
    [] token = "1" -> Some(1)
    [] token = "6" -> Some(6)
    [] token = "(5GHz, 80MHz)" -> Some(5)
    [] token = "WPA2 Personal" -> Some(2)
    [] token = "802.11ax" -> Some(802)
    [] token = "awdl0" -> Some(0)
    [] OTHER -> None

\* text.includes(label + ":")
IncludesLabel(text, label) ==
  \E i \in 1..(Len(text) - 1) : text[i] = label /\ text[i + 1] \in ColonTokens

\* text.startsWith(label + ":")
StartsWithLabel(text, label) ==
  Len(text) >= 2 /\ text[1] = label /\ text[2] \in ColonTokens

\* text.includes(":")
IncludesColon(text) == \E i \in DOMAIN text : text[i] \in ColonTokens

\* text.match(/^[A-Za-z0-9\-_]/)
StartsWithWordChar(text) == text # <<>> /\ text[1] \notin PunctuationTokens

\* text.replace(/:$/, "")
StripColon(text) ==
  IF text # <<>> /\ text[Len(text)] = ":" THEN SubSeq(text, 1, Len(text) - 1) ELSE text

\* The string the tokens spell.
RECURSIVE Join(_)
Join(text) == IF text = <<>> THEN "" ELSE Head(text) \o Join(Tail(text))

\* text.trim()
RECURSIVE Trim(_)
Trim(text) ==
  IF text = <<>> THEN text
  ELSE IF Head(text) = " " THEN Trim(Tail(text))
  ELSE IF text[Len(text)] = " " THEN Trim(SubSeq(text, 1, Len(text) - 1))
  ELSE text

\* trimmed.includes(": ") && trimmed.split(": ").length === 2
hasPropertyFormat(trimmed) ==
  Cardinality({ i \in DOMAIN trimmed : trimmed[i] = ": " }) = 1

\* trimmed.split(": ")[1]?.trim() of a line in property format.
PropertyValue(trimmed) ==
  LET at == CHOOSE i \in DOMAIN trimmed : trimmed[i] = ": "
  IN Trim(SubSeq(trimmed, at + 1, Len(trimmed)))

\* value.split(/\s+/)[0]
RECURSIVE FirstWord(_)
FirstWord(value) ==
  IF value = <<>> \/ Head(value) = " " THEN <<>>
  ELSE <<Head(value)>> \o FirstWord(Tail(value))

\* trimmed.match(/-?\d+/): the first number of the line, if any.
RECURSIVE FirstNumber(_)
FirstNumber(trimmed) ==
  IF trimmed = <<>> THEN None
  ELSE IF parseInt(Head(trimmed)) # None THEN parseInt(Head(trimmed))
  ELSE FirstNumber(Tail(trimmed))

\* A string used as a condition.
TruthyString(opt) == opt # None /\ opt[1] # ""

\* A number used as a condition.
TruthyNumber(opt) == opt # None /\ opt[1] # 0

\* First pass: the name of the current network.
RECURSIVE FirstPass(_, _, _)
FirstPass(lines, i, foundCurrentNetwork) ==
  IF i > Len(lines) THEN ""
  ELSE IF IncludesLabel(lines[i].text, "Current Network Information")
       THEN FirstPass(lines, i + 1, TRUE)
  ELSE IF foundCurrentNetwork /\ StartsWithWordChar(lines[i].text)
       THEN Join(StripColon(lines[i].text))
  ELSE IF foundCurrentNetwork /\ IncludesColon(lines[i].text) /\ lines[i].indent < 8
       THEN ""
  ELSE FirstPass(lines, i + 1, foundCurrentNetwork)

\* currentEntry = {}
NoEntry ==
  [ssid |-> None, rssi |-> None, security |-> None, channel |-> None, bssid |-> None]

FlushWithoutChannel(currentEntry, list, currentNetwork) ==
  IF TruthyString(currentEntry.ssid)
  THEN Append(list,
         [ssid |-> currentEntry.ssid[1],
          rssi |-> IF TruthyNumber(currentEntry.rssi) THEN currentEntry.rssi[1] ELSE -70,
          security |-> IF TruthyString(currentEntry.security)
                       THEN currentEntry.security[1] ELSE "Unknown",
          channel |-> IF currentEntry.channel # None THEN currentEntry.channel[1] ELSE "",
          bssid |-> <<currentEntry.ssid[1], "-">>,
          isConnected |-> currentEntry.ssid[1] = currentNetwork])
  ELSE list

FlushNeverCurrent(currentEntry, list, currentNetwork) ==
  IF TruthyString(currentEntry.ssid) /\ TruthyString(currentEntry.channel)
  THEN Append(list,
         [ssid |-> currentEntry.ssid[1],
          rssi |-> IF TruthyNumber(currentEntry.rssi) THEN currentEntry.rssi[1] ELSE -70,
          security |-> IF TruthyString(currentEntry.security)
                       THEN currentEntry.security[1] ELSE "Unknown",
          channel |-> currentEntry.channel[1],
          bssid |-> IF TruthyString(currentEntry.bssid)
                    THEN <<currentEntry.bssid[1]>>
                    ELSE <<currentEntry.ssid[1], "-", currentEntry.channel[1]>>,
          isConnected |-> FALSE])
  ELSE list

\* if (currentEntry.ssid && currentEntry.channel) list.push({...})
Flush(currentEntry, list, currentNetwork) ==
  IF TruthyString(currentEntry.ssid) /\ TruthyString(currentEntry.channel)
  THEN Append(list,
         [ssid |-> currentEntry.ssid[1],
          rssi |-> IF TruthyNumber(currentEntry.rssi) THEN currentEntry.rssi[1] ELSE -70,
          security |-> IF TruthyString(currentEntry.security)
                       THEN currentEntry.security[1] ELSE "Unknown",
          channel |-> currentEntry.channel[1],
          bssid |-> IF TruthyString(currentEntry.bssid)
                    THEN <<currentEntry.bssid[1]>>
                    ELSE <<currentEntry.ssid[1], "-", currentEntry.channel[1]>>,
          isConnected |-> currentEntry.ssid[1] = currentNetwork])
  ELSE list

\* The body of if (!hasPropertyFormat && trimmed.length > 0).
NetworkNameLine(st, line, currentNetwork) ==
  LET networkIndent == IF st.networkIndent = 0 THEN line.indent ELSE st.networkIndent
  IN IF line.indent = networkIndent
     THEN [st EXCEPT !.networkIndent = networkIndent,
                     !.networks = Flush(st.currentEntry, st.networks, currentNetwork),
                     !.currentEntry = [NoEntry EXCEPT !.ssid = Some(Join(StripColon(line.text)))]]
     ELSE [st EXCEPT !.networkIndent = networkIndent]

\* The body of else if (hasPropertyFormat && currentEntry.ssid).
PropertyLine(st, trimmed) ==
  LET value == PropertyValue(trimmed)
  IN IF StartsWithLabel(trimmed, "Security")
     THEN [st EXCEPT !.currentEntry.security =
             Some(IF Join(value) # "" THEN Join(value) ELSE "Unknown")]
     ELSE IF StartsWithLabel(trimmed, "Channel")
     THEN [st EXCEPT !.currentEntry.channel = Some(Join(FirstWord(value)))]
     ELSE IF IncludesLabel(trimmed, "Signal / Noise")
     THEN [st EXCEPT !.currentEntry.rssi =
             Some(IF FirstNumber(trimmed) # None THEN FirstNumber(trimmed)[1] ELSE -70)]
     ELSE IF StartsWithLabel(trimmed, "BSSID") \/ StartsWithLabel(trimmed, "MAC Address")
     THEN [st EXCEPT !.currentEntry.bssid = Some(Join(value))]
     ELSE st

SecondPassStartInSection ==
  [inNetworkSection |-> TRUE, currentEntry |-> NoEntry, networkIndent |-> 0,
   networks |-> <<>>]

\* The variables of the second pass before its loop.
SecondPassStart ==
  [inNetworkSection |-> FALSE, currentEntry |-> NoEntry, networkIndent |-> 0,
   networks |-> <<>>]

\* Second pass: the loop over the lines from line i on.
RECURSIVE SecondPass(_, _, _, _)
SecondPass(lines, i, st, currentNetwork) ==
  IF i > Len(lines) THEN st
  ELSE LET line == lines[i]
           trimmed == line.text
       IN IF IncludesLabel(trimmed, "Other Local Wi-Fi Networks")
          THEN SecondPass(lines, i + 1, [st EXCEPT !.inNetworkSection = TRUE], currentNetwork)
          ELSE IF ~st.inNetworkSection
          THEN SecondPass(lines, i + 1, st, currentNetwork)
          ELSE IF line.indent + Len(trimmed) > 0 /\ line.indent = 0 /\ IncludesColon(trimmed)
          THEN st
          ELSE IF trimmed = <<>>
          THEN SecondPass(lines, i + 1, st, currentNetwork)
          ELSE IF ~hasPropertyFormat(trimmed)
          THEN SecondPass(lines, i + 1, NetworkNameLine(st, line, currentNetwork),
                          currentNetwork)
          ELSE IF TruthyString(st.currentEntry.ssid)
          THEN SecondPass(lines, i + 1, PropertyLine(st, trimmed), currentNetwork)
          ELSE SecondPass(lines, i + 1, st, currentNetwork)

\* The list pushed by the loop and by the flush after it.
PushedNetworks(lines) ==
  LET currentNetwork == FirstPass(lines, 1, FALSE)
      st == SecondPass(lines, 1, SecondPassStart, currentNetwork)
  IN Flush(st.currentEntry, st.networks, currentNetwork)

\* The elements of s at the indexes in keep, in order.
RECURSIVE Filter(_, _, _)
Filter(s, i, keep) ==
  IF i > Len(s) THEN <<>>
  ELSE (IF i \in keep THEN <<s[i]>> ELSE <<>>) \o Filter(s, i + 1, keep)

\* self.findIndex((n) => n.ssid === network.ssid && n.channel === network.channel)
findIndex(self, network) ==
  CHOOSE i \in DOMAIN self :
    /\ self[i].ssid = network.ssid /\ self[i].channel = network.channel
    /\ \A j \in 1..(i - 1) :
         ~(self[j].ssid = network.ssid /\ self[j].channel = network.channel)

uniqueNetworksKeepLast(list) ==
  Filter(list, 1,
         { i \in DOMAIN list :
             \A j \in (i + 1)..Len(list) :
               ~(list[j].ssid = list[i].ssid
                 /\ list[j].channel = list[i].channel) })

\* list.filter((network, index, self) => index === self.findIndex(...))
uniqueNetworks(list) ==
  Filter(list, 1, { i \in DOMAIN list : i = findIndex(list, list[i]) })

\* Insertion of one network behind every network at least as strong.
RECURSIVE InsertByRssi(_, _)
InsertByRssi(sorted, network) ==
  IF sorted = <<>> THEN <<network>>
  ELSE IF Head(sorted).rssi >= network.rssi
       THEN <<Head(sorted)>> \o InsertByRssi(Tail(sorted), network)
       ELSE <<network>> \o sorted

RECURSIVE InsertBeforeEqual(_, _)
InsertBeforeEqual(sorted, network) ==
  IF sorted = <<>> THEN <<network>>
  ELSE IF Head(sorted).rssi > network.rssi
       THEN <<Head(sorted)>> \o InsertBeforeEqual(Tail(sorted), network)
       ELSE <<network>> \o sorted

RECURSIVE sortBeforeEqual(_)
sortBeforeEqual(list) ==
  IF list = <<>> THEN <<>>
  ELSE InsertBeforeEqual(sortBeforeEqual(SubSeq(list, 1, Len(list) - 1)), list[Len(list)])

\* list.sort((a, b) => b.rssi - a.rssi): the sort is stable.
RECURSIVE sort(_)
sort(list) ==
  IF list = <<>> THEN <<>>
  ELSE InsertByRssi(sort(SubSeq(list, 1, Len(list) - 1)), list[Len(list)])

\* What execSync of system_profiler does in one run: it returns the output,
\* or throws (non-zero exit, 15 s timeout, more than maxBuffer of output).
ExecStatuses == {"ok", "nonzero", "timeout", "overflow"}

\* scanNetworksAndGetCurrent on one run of system_profiler: the value
\* returned and what the catch block wrote on the console.
ScanAndLog(run) ==
  IF run.status # "ok"
  THEN [value |-> [currentNetwork |-> "", availableNetworks |-> <<>>],
        console |-> <<"System profiler scan failed:">>]
  ELSE [value |-> [currentNetwork |-> FirstPass(run.output, 1, FALSE),
                   availableNetworks |-> sort(uniqueNetworks(PushedNetworks(run.output)))],
        console |-> <<>>]

scanNetworksAndGetCurrent(run) == ScanAndLog(run).value

\* loadNetworks of the mount effect, the scan reading system_profiler.
MountScanning ==
  /\ ~mounted
  /\ mounted' = TRUE
  /\ LET scan == ScanAndLog(profiler)
     IN /\ loadNetworks(cacheSlot, scan.value)
        /\ scanned' = IF getCachedNetworks(cacheSlot, now) = None
                      THEN Some([status |-> profiler.status, value |-> scan.value,
                                 console |-> scan.console])
                      ELSE scanned
  /\ UNCHANGED <<now, ticks, selectedNetwork, toast, conn, localStorage, form, call,
                 profiler, qrCodeData, share>>

\* forceRefresh, the scan reading system_profiler.
RefreshScanning ==
  /\ mounted
  /\ selectedNetwork = None
  /\ qrCodeData = None
  /\ LET scan == ScanAndLog(profiler)
     IN /\ loadNetworks(clearNetworksCache(cacheSlot), scan.value)
        /\ scanned' = Some([status |-> profiler.status, value |-> scan.value,
                            console |-> scan.console])
  /\ toast' = Toast("Success", <<"Networks Refreshed">>, <<>>)
  /\ UNCHANGED <<now, ticks, mounted, selectedNetwork, conn, localStorage, form, call,
                 profiler, qrCodeData, share>>

\* ------------------------------------------------------ reports to scan
\* How many entries the section of the other networks lists.
MaxEntries == 2

CurrentHeader == Line(10, <<"Current Network Information", ":">>)

OtherHeader == Line(10, <<"Other Local Wi-Fi Networks", ":">>)

NameLine(ssid) == Line(12, <<ssid, ":">>)

ChannelLine(channel) == Line(14, <<"Channel", ": ", channel, " ", "(5GHz, 80MHz)">>)

SecurityLine(security) == Line(14, <<"Security", ": ", security>>)

SignalLine(signal) == Line(14, <<"Signal / Noise", ": ", signal, " dBm / ", "-90", " dBm">>)

\* One network as system_profiler lists it, the Channel and the Signal line
\* possibly missing.
Entry(ssid, channel, signal) ==
  <<NameLine(ssid)>>
  \o (IF channel = None THEN <<>> ELSE <<ChannelLine(channel[1])>>)
  \o (IF ssid = "HomeNet" THEN <<SecurityLine("WPA2 Personal")>> ELSE <<>>)
  \o (IF signal = None THEN <<>> ELSE <<SignalLine(signal[1])>>)

\* The pieces a report is made of: whole entries, an entry under a hidden
\* (empty) name, properties under no name, an entry cut after "Channel:",
\* an empty line, an entry whose name is at the left margin, an entry of
\* signal strength 0, an entry with a BSSID and no number in its signal.
Entries ==
  { Entry(ssid, listed[1], listed[2]) :
      ssid \in {"HomeNet", "CafeWifi"},
      listed \in { <<Some("1"), Some("-40")>>, <<Some("1"), Some("-60")>>,
                   <<Some("6"), None>>, <<None, Some("-40")>> } }
  \cup { << Line(12, <<":">>), ChannelLine("1"), SignalLine("-40") >>,
         << Line(14, <<"PHY Mode", ": ", "802.11ax">>), ChannelLine("6") >>,
         << NameLine("CafeWifi"), Line(14, <<"Channel", ":">>) >>,
         << Line(0, <<>>) >>,
         << Line(0, <<"Lobby">>), ChannelLine("1") >>,
         << NameLine("CafeWifi"), ChannelLine("6"), SignalLine("0") >>,
         << NameLine("Lobby"), ChannelLine("6"),
            Line(14, <<"BSSID", ": ", "ab-cd-ef">>), SignalLine("dBm") >> }

\* What comes before and after the entries: the section of the current
\* network and the header of the other networks; that header alone; no
\* header; the two headers with nothing between; an empty line under the
\* first header; a hidden current network; a top-level section after the
\* entries; another interface after them.
Frames ==
  { << <<CurrentHeader, NameLine("HomeNet"), ChannelLine("6"), OtherHeader>>, <<>> >>,
    << <<OtherHeader>>, <<>> >>,
    << <<>>, <<>> >>,
    << <<CurrentHeader, OtherHeader>>, <<>> >>,
    << <<CurrentHeader, Line(0, <<>>), NameLine("CafeWifi"), OtherHeader>>, <<>> >>,
    << <<CurrentHeader, Line(12, <<":">>), ChannelLine("6"), OtherHeader>>, <<>> >>,
    << <<OtherHeader>>,
       <<Line(0, <<"Bluetooth", ":">>), NameLine("CafeWifi"), ChannelLine("1")>> >>,
    << <<OtherHeader>>,
       <<Line(8, <<"awdl0", ":">>), Line(10, <<"Status", ": ", "Connected">>)>> >> }

RECURSIVE Flatten(_)
Flatten(seqs) == IF seqs = <<>> THEN <<>> ELSE Head(seqs) \o Flatten(Tail(seqs))

Reports ==
  { frame[1] \o Flatten(body) \o frame[2] :
      frame \in Frames, body \in SeqsUpTo(Entries, MaxEntries) }

\* The runs of system_profiler: it prints a report, or execSync throws.
ProfilerRuns ==
  { [status |-> "ok", output |-> report] : report \in Reports }
  \cup { [status |-> status, output |-> <<>>] : status \in ExecStatuses \ {"ok"} }

\* In the specifications that draw the result of a scan from ScanResults.
NoProfiler == [status |-> "ok", output |-> <<>>]

\* -------------------------------------------------------- the share flow
\* What execSync of security find-generic-password does in one run: it
\* throws (no item, or the user cancelled), or prints the password and a
\* newline.
KeychainRuns ==
  { [threw |-> TRUE, output |-> <<>>] }
  \cup { [threw |-> FALSE, output |-> Append(p, "\n")] : p \in Passwords }

\* output.trim()
RECURSIVE TrimOutput(_)
TrimOutput(output) ==
  IF output = <<>> THEN output
  ELSE IF Head(output) \in {" ", "\n"} THEN TrimOutput(Tail(output))
  ELSE IF output[Len(output)] \in {" ", "\n"}
       THEN TrimOutput(SubSeq(output, 1, Len(output) - 1))
  ELSE output

fetchPasswordFromKeychain(ssid, exec) ==
  IF exec.threw THEN None
  ELSE LET result == TrimOutput(exec.output)
       IN IF result # <<>> THEN Some(result) ELSE None

\* What the two commands that bring Raycast back to the front can do: each
\* returns or throws.
FocusRuns == [open : BOOLEAN, osascript : BOOLEAN]

Ran(command, ok) == [command |-> command, threw |-> ~ok]

\* restoreRaycastFocus(): the commands it runs; nothing is thrown.
restoreRaycastFocus(run) ==
  IF run.open THEN << Ran("open -a Raycast", TRUE) >>
  ELSE << Ran("open -a Raycast", FALSE), Ran("osascript", run.osascript) >>

\* fetchFromKeychain of the password form, for the network of the form: the
\* lookup, the commands run for the focus, the password field and the toast
\* (None when no toast is shown).  A throw of the lookup or of osascript
\* ends in the catch block, which runs open -a Raycast once more.
fetchFromKeychain(password, exec, run) ==
  LET notFound == Some(Toast("Failure", <<"Password Not Found">>,
                             <<"This network's password is not saved in Keychain">>))
  IN IF exec.threw
     THEN [password |-> password, fetched |-> None,
           focus |-> << Ran("open -a Raycast", run.open) >>, toast |-> notFound]
     ELSE LET result == TrimOutput(exec.output)
          IN IF ~run.open /\ ~run.osascript
             THEN [password |-> password, fetched |-> Some(result),
                   focus |-> << Ran("open -a Raycast", FALSE), Ran("osascript", FALSE),
                                Ran("open -a Raycast", FALSE) >>,
                   toast |-> notFound]
             ELSE [password |-> IF result # <<>> THEN result ELSE password,
                   fetched |-> Some(result),
                   focus |-> restoreRaycastFocus(run),
                   toast |-> IF result # <<>>
                             THEN Some(Toast("Success", <<"Password Retrieved">>,
                                             <<"Password fetched from Keychain">>))
                             ELSE None]

\* The Fetch from Keychain action of the password form.
FetchFromKeychain ==
  /\ selectedNetwork # None
  /\ \E exec \in KeychainRuns, run \in FocusRuns :
       LET r == fetchFromKeychain(form.password, exec, run)
       IN /\ form' = [at |-> "done", password |-> r.password, fetched |-> r.fetched,
                      focus |-> r.focus]
          /\ toast' = IF r.toast = None THEN toast ELSE r.toast[1]
  /\ UNCHANGED <<now, ticks, cacheSlot, lastWrite, preConnection, mounted, networks,
                 currentSSID, isLoading, lastLoad, selectedNetwork, conn, localStorage,
                 call, profiler, scanned, qrCodeData, share>>

\* The handleShareQRCode call in flight, or the latest one.
NoShare ==
  [at |-> "idle", network |-> None, lookups |-> <<>>, fetched |-> None,
   focus |-> <<>>]

\* The test of the first lines of handleShareQRCode.
handleShareEntry(network) ==
  network.security = "Open" \/ network.security = "OPEN"

\* handleShareQRCode(network) up to its first await: the Share Via QR Code
\* action of a list item.
HandleShareQRCode ==
  /\ mounted
  /\ selectedNetwork = None
  /\ qrCodeData = None
  /\ share.at \in {"idle", "done"}
  /\ \E i \in DOMAIN networks :
       IF handleShareEntry(networks[i])
       THEN /\ qrCodeData' = Some([network |-> networks[i], password |-> <<>>])
            /\ share' = [NoShare EXCEPT !.at = "done", !.network = Some(networks[i])]
            /\ toast' = toast
       ELSE /\ toast' = Toast("Animated", <<"Fetching Password">>,
                              <<"Retrieving password from Keychain...">>)
            /\ share' = [NoShare EXCEPT !.at = "fetching", !.network = Some(networks[i])]
            /\ qrCodeData' = qrCodeData
  /\ UNCHANGED <<now, ticks, cacheSlot, lastWrite, preConnection, mounted, networks,
                 currentSSID, isLoading, lastLoad, selectedNetwork, conn, localStorage, form,
                 call, profiler, scanned>>

\* handleShareQRCode from the Keychain lookup to the toast that reports it.
ShareFetch ==
  /\ share.at = "fetching"
  /\ \E exec \in KeychainRuns, run \in FocusRuns :
       LET password == fetchPasswordFromKeychain(share.network[1].ssid, exec)
       IN /\ share' = [share EXCEPT !.lookups = Append(share.lookups, share.network[1].ssid),
                                    !.fetched = password,
                                    !.focus = restoreRaycastFocus(run),
                                    !.at = IF ~Truthy(password) THEN "done" ELSE "ready"]
          /\ toast' = IF ~Truthy(password)
                      THEN Toast("Failure", <<"Password Required">>,
                                 <<"Password not found in Keychain.",
                                   "Please connect to the network first to save it in Keychain.">>)
                      ELSE Toast("Success", <<"QR Code Ready">>, <<"Generating QR code...">>)
  /\ UNCHANGED <<now, ticks, cacheSlot, lastWrite, preConnection, mounted, networks,
                 currentSSID, isLoading, lastLoad, selectedNetwork, conn, localStorage, form,
                 call, profiler, scanned, qrCodeData>>

\* handleShareQRCode after the success toast: setQrCodeData.
ShareShow ==
  /\ share.at = "ready"
  /\ qrCodeData' = Some([network |-> share.network[1], password |-> share.fetched[1]])
  /\ share' = [share EXCEPT !.at = "done"]
  /\ UNCHANGED <<now, ticks, cacheSlot, lastWrite, preConnection, mounted, networks,
                 currentSSID, isLoading, lastLoad, selectedNetwork, toast, conn,
                 localStorage, form, call, profiler, scanned>>

\* handleCloseQRCode
HandleCloseQRCode ==
  /\ qrCodeData # None
  /\ qrCodeData' = None
  /\ UNCHANGED <<now, ticks, cacheSlot, lastWrite, preConnection, mounted, networks,
                 currentSSID, isLoading, lastLoad, selectedNetwork, toast, conn,
                 localStorage, form, call, profiler, scanned, share>>

\* -------------------------------------------------------- specifications
FirstScan ==
  CHOOSE r \in ScanResults : r.currentNetwork # ""

\* The entries the persisted cache can hold when the command starts at time
\* clock: none, one this build wrote a moment ago, one it wrote
\* CACHE_DURATION ago, one an older build wrote a moment ago.
PersistedWrites(clock) ==
  {None} \cup
  { Some([networks |-> FirstScan.availableNetworks, currentSSID |-> FirstScan.currentNetwork,
          at |-> w[1], version |-> w[2]]) :
      w \in { <<clock - 1, CACHE_VERSION>>, <<clock - CACHE_DURATION, CACHE_VERSION>>,
              <<clock - 1, CACHE_VERSION - 1>> } }

SlotOf(write) ==
  IF write = None THEN None
  ELSE Some(JSONstringify([version |-> write[1].version, networks |-> write[1].networks,
                           currentSSID |-> write[1].currentSSID,
                           timestamp |-> write[1].at]))

EmptyStorage == [s \in SSIDs |-> None]

\* A value LocalStorage holds under one key: nothing, or a string.
StoredValues == {None} \cup { Some(p) : p \in Passwords }

InitCommon ==
  /\ now = 2 * CACHE_DURATION
  /\ ticks = 0
  /\ lastWrite \in PersistedWrites(now)
  /\ cacheSlot = SlotOf(lastWrite)
  /\ preConnection = FALSE
  /\ mounted = FALSE
  /\ networks = <<>>
  /\ currentSSID = ""
  /\ isLoading = TRUE
  /\ lastLoad = [from |-> "none", stale |-> FALSE, hadFresh |-> FALSE]
  /\ selectedNetwork = None
  /\ toast = Toast("none", <<>>, <<>>)
  /\ conn = NoConn
  /\ call = NoCall
  /\ scanned = None
  /\ qrCodeData = None
  /\ share = NoShare
  /\ form = NoForm

\* The command: the extension as the user drives it.
Init ==
  /\ InitCommon
  /\ localStorage = EmptyStorage
  /\ profiler = NoProfiler

Next ==
  \/ Mount
  \/ Tick
  \/ ForceRefresh
  \/ ConnectFromList
  \/ HandleSubmit
  \/ HandleCancelPassword
  \/ ConnectStep
  \/ FinishConnect

Spec == Init /\ [][Next]_vars

\* The connection service: its exported functions called on any network,
\* with LocalStorage holding at most one value.
InitService ==
  /\ InitCommon
  /\ localStorage \in { [EmptyStorage EXCEPT ![s] = v] : s \in SSIDs, v \in StoredValues }
  /\ profiler = NoProfiler

NextService ==
  \/ TryConnectWithSavedPassword
  \/ ConnectToNetwork
  \/ TakeResult

SpecService == InitService /\ [][NextService]_vars

\* The scanner: the command loading and refreshing with an empty cache, the
\* scan reading what system_profiler prints or failing to run it.
InitScanner ==
  /\ InitCommon
  /\ lastWrite = None
  /\ localStorage = EmptyStorage
  /\ profiler \in ProfilerRuns

NextScanner ==
  \/ MountScanning
  \/ RefreshScanning

SpecScanner == InitScanner /\ [][NextScanner]_vars

\* The share flow: the command with the list shown and the Share Via QR Code
\* action.
NextShare ==
  \/ Mount
  \/ ForceRefresh
  \/ HandleShareQRCode
  \/ ShareFetch
  \/ ShareShow
  \/ HandleCloseQRCode

SpecShare == Init /\ [][NextShare]_vars

\* What version 1.0.0, which kept passwords in LocalStorage, can have left
\* there: nothing, or one password under the key of one network.
LegacyStorage ==
  {EmptyStorage} \cup { [EmptyStorage EXCEPT ![s] = Some(<<"a">>)] : s \in SSIDs }

\* Connecting and sharing, started with an empty cache on what version 1.0.0
\* left in LocalStorage.  The two flows have no state in common but the
\* toast: a run of the command is followed through its connection attempts
\* or through its shares.
InitStorage ==
  /\ InitCommon
  /\ lastWrite = None
  /\ localStorage \in LegacyStorage
  /\ profiler = NoProfiler

NextStorage ==
  \/ Mount
  \/ share.at = "idle" /\ ConnectFromList
  \/ share.at = "idle" /\ HandleSubmit
  \/ share.at = "idle" /\ HandleCancelPassword
  \/ share.at = "idle" /\ ConnectStep
  \/ share.at = "idle" /\ FinishConnect
  \/ conn.at = "idle" /\ HandleShareQRCode
  \/ conn.at = "idle" /\ ShareFetch
  \/ conn.at = "idle" /\ ShareShow
  \/ conn.at = "idle" /\ HandleCloseQRCode

SpecStorage == InitStorage /\ [][NextStorage]_vars

\* The Keychain lookups: the share action of the list and the Fetch from
\* Keychain action of the password form, a run of the command being followed
\* through its password forms or through its shares.
NextLookup ==
  \/ Mount
  \/ share.at = "idle" /\ ConnectFromList
  \/ share.at = "idle" /\ HandleCancelPassword
  \/ share.at = "idle" /\ FetchFromKeychain
  \/ conn.at = "idle" /\ HandleShareQRCode
  \/ conn.at = "idle" /\ ShareFetch
  \/ conn.at = "idle" /\ ShareShow
  \/ conn.at = "idle" /\ HandleCloseQRCode

SpecLookup == InitStorage /\ [][NextLookup]_vars

\* The shell commands built from a network name and the interface
\* preference.
NextShell ==
  \/ BuildConnectCommand
  \/ BuildLookupCommand
  \/ TakeResult

SpecShell == Init /\ [][NextShell]_vars


\* ================================================================ claims
\* The security labels the specification calls open: "Open" in any letter
\* case, or "None".
LowerCase(label) ==
  CASE label = "Open" -> "open"
    [] label = "OPEN" -> "open"
    [] OTHER -> label

OpenLabel(label) == LowerCase(label) = "open" \/ label = "None"

\* The latest handleConnect call was made on a secured network without a password.
SecuredWithoutPassword ==
  /\ conn.network # None
  /\ ~OpenLabel(conn.network[1].security)
  /\ ~Truthy(conn.password)

TriedSecured ==
  /\ call.op = "tryConnectWithSavedPassword"
  /\ ~OpenLabel(call.network[1].security)

\* C2: when the store holds a password for a secured network and the connect
\* command run with it fails, the command was run exactly once, with that
\* password, and the result is PasswordRequired with the message
\* "Saved password didn't work", whatever the error text.
C2_SavedPasswordRejected ==
  (TriedSecured /\ Truthy(localStorage[call.network[1].ssid]) /\ call.error # None)
    => /\ Len(call.osCalls) = 1
       /\ call.osCalls[1].command.password
            = Some(EscapePassword(localStorage[call.network[1].ssid][1]))
       /\ call.result = Some(Result(FALSE, <<"Saved password didn't work">>, TRUE, FALSE))

C2_Witness ==
  /\ TriedSecured
  /\ Truthy(localStorage[call.network[1].ssid])
  /\ call.error # None
  /\ Includes(call.error[1], "authentication")
  /\ call.result[1].message = <<"Saved password didn't work">>

\* C3: when the store holds no password for a secured network (nothing, or
\* the empty string), the result is PasswordRequired and no connect command
\* is run.
C3_NoSavedPassword ==
  (TriedSecured /\ ~Truthy(localStorage[call.network[1].ssid]))
    => /\ call.osCalls = <<>>
       /\ call.result # None
       /\ ~call.result[1].success
       /\ call.result[1].requiresPassword

C3_Witness ==
  /\ TriedSecured
  /\ localStorage[call.network[1].ssid] = Some(<<>>)
  /\ call.result # None
  /\ call.result[1].requiresPassword

\* C4, as stated: when the saved password of a secured network is accepted,
\* the result is a success that carries usedSavedPassword, and the cache slot
\* is empty once the call has returned.
C4_SavedAcceptedCacheInvalidated ==
  (TriedSecured /\ call.result # None /\ call.result[1].success)
    => /\ call.result[1].usedSavedPassword
       /\ cacheSlot = None

\* The latest handleConnect call was made on a secured network with a
\* password and has its result.
ExplicitPasswordResolved ==
  /\ conn.network # None
  /\ ~OpenLabel(conn.network[1].security)
  /\ Truthy(conn.password)
  /\ conn.result # None

\* C5, as stated: a connect on a secured network with a non-empty explicit
\* password runs the connect command once, the command receives exactly that
\* password, no credential store is asked and the result does not carry
\* usedSavedPassword.
C5_ExplicitPasswordDirect ==
  ExplicitPasswordResolved
    => /\ Len(conn.osCalls) = 1
       /\ conn.osCalls[1].received.started
       /\ conn.osCalls[1].received.password = conn.password
       /\ conn.lookups = <<>>
       /\ ~conn.result[1].usedSavedPassword

\* C6, as stated: a connect request on a network with an open label never
\* puts up the password form, asks no credential store, runs the connect
\* command without a password argument and never ends in PasswordRequired.
C6_OpenNeverPrompts ==
  (conn.network # None /\ OpenLabel(conn.network[1].security))
    => /\ ~conn.prompted
       /\ conn.lookups = <<>>
       /\ \A i \in DOMAIN conn.osCalls : conn.osCalls[i].command.password = None
       /\ conn.result # None => ~conn.result[1].requiresPassword

\* C7: when the connect command fails, connectToNetwork returns a failure
\* whose message is chosen from the error text in this order: the
\* authentication message if the text has "password" or "authentication",
\* else the unavailable message if it has "network" or "not found", else the
\* text itself.
C7_ErrorClassification ==
  (call.op = "connectToNetwork" /\ call.error # None)
    => /\ call.result # None
       /\ ~call.result[1].success
       /\ call.result[1].message =
            (IF Includes(call.error[1], "password") \/ Includes(call.error[1], "authentication")
             THEN <<"Incorrect password or authentication failed">>
             ELSE IF Includes(call.error[1], "network") \/ Includes(call.error[1], "not found")
                  THEN <<"Network not available">>
                  ELSE call.error[1])

C7_Witness ==
  /\ call.op = "connectToNetwork"
  /\ call.error # None
  /\ Includes(call.error[1], "password")
  /\ Includes(call.error[1], "network")
  /\ call.result[1].message = <<"Incorrect password or authentication failed">>

\* C8: no load is served a snapshot that was written before the latest
\* successful connect, and once a connect has succeeded and its handler has
\* finished, the latest load is one that ran the scan.
C8_NoStaleSnapshotAfterConnect ==
  /\ lastLoad.from = "cache" => ~lastLoad.stale
  /\ (conn.at = "done" /\ conn.result # None /\ conn.result[1].success)
       => lastLoad.from = "scan"

C8_Witness ==
  /\ conn.at = "done"
  /\ conn.result # None
  /\ conn.result[1].success
  /\ lastLoad.from = "scan"
  /\ lastLoad.hadFresh

\* C9, as stated: right after a connection attempt that ran the connect
\* command has resolved, failed or not, a cache read returns absent.
C9_ClearedAfterEveryAttempt ==
  [][ (ConnectStep /\ conn'.at = "done") \/ FinishConnect
        => getCachedNetworks(cacheSlot', now') = None ]_vars

\* What a cache read returns right after a scan at the present time.
FreshlyScanned ==
  /\ lastLoad'.from = "scan"
  /\ getCachedNetworks(cacheSlot', now')
       = Some([version |-> CACHE_VERSION, networks |-> networks',
               currentSSID |-> currentSSID', timestamp |-> now'])

\* C9, amended: a failed attempt leaves the slot as it was; after a
\* successful attempt and on every forced refresh the slot is cleared and at
\* once rewritten by the reload, which runs the scan, so that a read right
\* after returns the snapshot just scanned.
C9_ClearedThenReloaded ==
  [][ /\ (ConnectStep /\ conn'.at = "done") => cacheSlot' = cacheSlot
      /\ FinishConnect => FreshlyScanned
      /\ ForceRefresh => FreshlyScanned ]_vars

C9_Witness ==
  /\ conn.at = "done"
  /\ conn.error # None
  /\ conn.osCalls # <<>>
  /\ getCachedNetworks(cacheSlot, now) # None

\* C10: a cache read returns absent exactly when the slot is empty, or holds
\* another version than 3, or what it holds was written 5000 ms ago or more;
\* otherwise it returns the networks, in order, and the current ssid of the
\* latest write.
C10_ReadSemantics ==
  LET read == getCachedNetworks(cacheSlot, now)
  IN IF lastWrite = None
     THEN read = None
     ELSE IF lastWrite[1].version # 3 \/ now - lastWrite[1].at >= 5000
          THEN read = None
          ELSE /\ read # None
               /\ read[1].networks = lastWrite[1].networks
               /\ read[1].currentSSID = lastWrite[1].currentSSID

C10_Witness ==
  /\ lastWrite # None
  /\ lastWrite[1].version = 3
  /\ lastLoad.from = "scan"
  /\ now - lastWrite[1].at = 5000
  /\ getCachedNetworks(cacheSlot, now) = None

\* What the slot holds when it holds, whole, the snapshot the hook has just
\* scanned, stamped with the current version and the current time.
WholeSnapshotWritten ==
  /\ cacheSlot' = Some(JSONstringify([version |-> CACHE_VERSION, networks |-> networks',
                                      currentSSID |-> currentSSID', timestamp |-> now']))
  /\ lastWrite' = Some([networks |-> networks', currentSSID |-> currentSSID',
                        at |-> now', version |-> CACHE_VERSION])

\* C11: every step that changes the slot, and every forced refresh, leaves in
\* the slot exactly one whole snapshot, the one of that step's scan, stamped
\* with version 3 and the current time: after two forced refreshes in quick
\* succession the slot holds the snapshot of the later one, no part of the
\* earlier one.
C11_LastWriteWins ==
  [][ /\ cacheSlot' # cacheSlot => WholeSnapshotWritten
      /\ ForceRefresh => WholeSnapshotWritten ]_vars

\* A forced refresh has replaced an entry that was still fresh.
C11_Witness ==
  /\ toast.title = <<"Networks Refreshed">>
  /\ lastLoad.from = "scan"
  /\ lastLoad.hadFresh
  /\ lastWrite # None
  /\ lastWrite[1].at = now
  /\ ticks > 0

\* C12: the scan runs only inside a load (on mount, after a successful
\* connect) or a forced refresh, and only when the cache read of that load
\* returned absent.  A load that finds a fresh entry serves it, runs no scan
\* and writes nothing; a forced refresh always runs the scan, fresh entry or
\* not.
C12_ScanOnlyOnCacheMiss ==
  [][ /\ Mount => IF getCachedNetworks(cacheSlot, now) # None
                  THEN /\ lastLoad'.from = "cache"
                       /\ cacheSlot' = cacheSlot
                       /\ lastWrite' = lastWrite
                       /\ networks' = getCachedNetworks(cacheSlot, now)[1].networks
                  ELSE lastLoad'.from = "scan"
      /\ ForceRefresh => lastLoad'.from = "scan"
      /\ FinishConnect => lastLoad'.from = "scan"
      /\ ~(Mount \/ ForceRefresh \/ FinishConnect)
           => UNCHANGED <<lastLoad, cacheSlot, lastWrite, networks, currentSSID>> ]_vars

\* A load was served from a fresh entry.
C12_Witness ==
  /\ mounted
  /\ lastLoad.from = "cache"
  /\ lastLoad.hadFresh
  /\ conn.at = "idle"

\* The scan has run system_profiler, which printed a report.
ScannedReport == scanned # None /\ scanned[1].status = "ok"

\* The report has neither section header.
NoHeader(lines) ==
  \A i \in DOMAIN lines :
    /\ ~IncludesLabel(lines[i].text, "Current Network Information")
    /\ ~IncludesLabel(lines[i].text, "Other Local Wi-Fi Networks")

RecordFields == {"ssid", "rssi", "security", "channel", "bssid", "isConnected"}

\* C13: on every report the scan returns a snapshot (a current ssid and a
\* list of whole records) and its catch block does not run; on a report with
\* neither section header the snapshot is the empty one, whatever names and
\* properties the report holds.  The hook shows and caches that snapshot.
C13_ParserNeverThrows ==
  ScannedReport =>
    LET value == scanned[1].value
    IN /\ scanned[1].console = <<>>
       /\ value.currentNetwork \in STRING
       /\ \A i \in DOMAIN value.availableNetworks :
            DOMAIN value.availableNetworks[i] = RecordFields
       /\ NoHeader(profiler.output)
            => value = [currentNetwork |-> "", availableNetworks |-> <<>>]
       /\ networks = value.availableNetworks
       /\ currentSSID = value.currentNetwork

\* A report with no header, holding names and properties, has been scanned.
C13_Witness ==
  /\ ScannedReport
  /\ NoHeader(profiler.output)
  /\ \E i \in DOMAIN profiler.output : hasPropertyFormat(profiler.output[i].text)
  /\ \E i \in DOMAIN profiler.output : profiler.output[i] = NameLine("HomeNet")
  /\ networks = <<>>

\* C14, as stated: when system_profiler cannot be run to its end, the scan
\* returns the empty snapshot and the user is shown a warning.
C14_ScanFailureSurfaced ==
  (scanned # None /\ scanned[1].status # "ok")
    => /\ scanned[1].value = [currentNetwork |-> "", availableNetworks |-> <<>>]
       /\ toast.style = "Failure"

SameKey(a, b) == a.ssid = b.ssid /\ a.channel = b.channel

\* C15: no two records of a snapshot have the same ssid and channel; each
\* record is the first one discovered under its ssid and channel, with that
\* one's attributes; every discovered pair of ssid and channel is in the
\* snapshot, so an ssid seen on several channels keeps one record for each.
C15_UniquePerSsidChannel ==
  ScannedReport =>
    LET records == scanned[1].value.availableNetworks
        pushed == PushedNetworks(profiler.output)
    IN /\ \A i, j \in DOMAIN records : SameKey(records[i], records[j]) => i = j
       /\ \A i \in DOMAIN records :
            \E k \in DOMAIN pushed :
              /\ pushed[k] = records[i]
              /\ \A m \in 1..(k - 1) : ~SameKey(pushed[m], records[i])
       /\ \A k \in DOMAIN pushed :
            \E i \in DOMAIN records : SameKey(records[i], pushed[k])

\* Two entries of the report had the same ssid and channel and different
\* signal strengths.
C15_Witness ==
  /\ ScannedReport
  /\ LET pushed == PushedNetworks(profiler.output)
     IN \E k, m \in DOMAIN pushed :
          k < m /\ SameKey(pushed[k], pushed[m]) /\ pushed[k].rssi # pushed[m].rssi
  /\ Len(networks) = 1

\* C16: the records are in descending order of signal strength, and records
\* of equal strength are in the order they were discovered in.
C16_SortedBySignal ==
  ScannedReport =>
    LET records == scanned[1].value.availableNetworks
        pushed == PushedNetworks(profiler.output)
    IN \A i, j \in DOMAIN records :
         i < j => /\ records[i].rssi >= records[j].rssi
                  /\ records[i].rssi = records[j].rssi
                       => findIndex(pushed, records[i]) < findIndex(pushed, records[j])

\* Two records of equal strength are in the snapshot.
C16_Witness ==
  /\ ScannedReport
  /\ Len(networks) = 2
  /\ networks[1].rssi = networks[2].rssi
  /\ networks[1].ssid # networks[2].ssid

\* C17: a record is marked current exactly when its ssid is the current ssid
\* of the snapshot; when the current ssid is empty no record is marked.
C17_CurrentFlag ==
  ScannedReport =>
    LET value == scanned[1].value
    IN /\ \A i \in DOMAIN value.availableNetworks :
            value.availableNetworks[i].isConnected
              <=> value.availableNetworks[i].ssid = value.currentNetwork
       /\ value.currentNetwork = ""
            => \A i \in DOMAIN value.availableNetworks :
                 ~value.availableNetworks[i].isConnected

\* A snapshot with the current network and another one.
C17_Witness ==
  /\ ScannedReport
  /\ currentSSID = "HomeNet"
  /\ \E i, j \in DOMAIN networks : networks[i].isConnected /\ ~networks[j].isConnected

\* The indent system_profiler prints the network names at.
NameIndent == NameLine("").indent

\* Line i of the report is in the section of the other networks.
InOtherSection(lines, i) ==
  \E h \in 1..(i - 1) :
    /\ IncludesLabel(lines[h].text, "Other Local Wi-Fi Networks")
    /\ \A k \in (h + 1)..i : ~(lines[k].indent = 0 /\ IncludesColon(lines[k].text))

\* Line i is the name line of an entry.
IsNameLine(lines, i) ==
  /\ InOtherSection(lines, i)
  /\ lines[i].indent = NameIndent
  /\ lines[i].text # <<>>
  /\ ~hasPropertyFormat(lines[i].text)

\* Line k can be inside an entry: it is not the name line of another entry
\* and does not end the section.
UnderName(lines, k) ==
  /\ ~(/\ lines[k].indent = NameIndent
        /\ lines[k].text # <<>>
        /\ ~hasPropertyFormat(lines[k].text))
  /\ ~(lines[k].indent = 0 /\ IncludesColon(lines[k].text))

\* The last line of the entry that starts at line i.
EntryEnd(lines, i) ==
  CHOOSE j \in i..Len(lines) :
    /\ \A k \in (i + 1)..j : UnderName(lines, k)
    /\ j = Len(lines) \/ ~UnderName(lines, j + 1)

\* The entries that have a name and no Channel property.
EntriesWithoutChannel(lines) ==
  { i \in DOMAIN lines :
      /\ IsNameLine(lines, i)
      /\ StripColon(lines[i].text) # <<>>
      /\ \A k \in (i + 1)..EntryEnd(lines, i) :
           ~(hasPropertyFormat(lines[k].text) /\ StartsWithLabel(lines[k].text, "Channel")) }

WithoutEntry(lines, i) ==
  SubSeq(lines, 1, i - 1) \o SubSeq(lines, EntryEnd(lines, i) + 1, Len(lines))

\* C18: every record of a snapshot has a non-empty ssid and a non-empty
\* channel; an entry of the report with no Channel property yields no record,
\* and the snapshot is the one the report without that entry yields.
C18_OnlyCompleteEntries ==
  ScannedReport =>
    LET value == scanned[1].value
    IN /\ \A i \in DOMAIN value.availableNetworks :
            /\ value.availableNetworks[i].ssid # ""
            /\ value.availableNetworks[i].channel # ""
       /\ \A i \in EntriesWithoutChannel(profiler.output) :
            scanNetworksAndGetCurrent([status |-> "ok",
                                       output |-> WithoutEntry(profiler.output, i)])
              = value

\* An entry without Channel was dropped at the name line of the next entry,
\* and that next entry was kept.
C18_Witness ==
  /\ ScannedReport
  /\ \E i \in EntriesWithoutChannel(profiler.output) :
       EntryEnd(profiler.output, i) < Len(profiler.output)
  /\ Len(networks) = 1

\* C19, as stated: connectToNetwork called on a secured network with a
\* password made of plain characters, double quotes, dollar signs and
\* backslashes starts the connect command once, and the password argument
\* the command receives is exactly the password of the call.
C19_PasswordReceivedExactly ==
  (/\ call.op = "connectToNetwork"
   /\ ~isOpenNetwork(call.network[1])
   /\ Truthy(call.password))
    => /\ Len(call.osCalls) = 1
       /\ call.osCalls[1].command.password = Some(EscapePassword(call.password[1]))
       /\ call.osCalls[1].received.started
       /\ call.osCalls[1].received.password = call.password

\* C20, as stated: the QR view shows the empty password or the one the
\* Keychain returned; sharing a network with an open label ("Open" in any
\* letter case, "None") asks the Keychain nothing and opens the QR view with
\* the empty password; sharing a secured network the Keychain has no password
\* for fails with the instruction to connect first and opens no QR view.
C20_SharedPasswordFromStore ==
  /\ [](/\ qrCodeData # None
              => \/ qrCodeData[1].password = <<>>
                 \/ share.fetched = Some(qrCodeData[1].password)
        /\ (share.network # None /\ OpenLabel(share.network[1].security))
              => /\ share.lookups = <<>>
                 /\ share.at = "done"
                 /\ share.fetched = None
                 /\ qrCodeData # None => qrCodeData[1].password = <<>>
        /\ (share.at = "done" /\ share.lookups # <<>> /\ ~Truthy(share.fetched))
              => qrCodeData = None)
  /\ [][ (ShareFetch /\ ~Truthy(share'.fetched))
           => /\ share'.at = "done"
              /\ toast'.style = "Failure"
              /\ toast'.title = <<"Password Required">>
              /\ Includes(toast'.message,
                          "Please connect to the network first to save it in Keychain.") ]_vars

\* The first line after line h that is not empty, or 0.
FirstNonBlankAfter(lines, h) ==
  LET following == { k \in (h + 1)..Len(lines) : lines[k].text # <<>> }
  IN IF following = {} THEN 0
     ELSE CHOOSE k \in following : \A m \in following : k <= m

\* The current ssid as C24 defines it.
ExpectedCurrentSsid(lines) ==
  LET headers == { i \in DOMAIN lines :
                     IncludesLabel(lines[i].text, "Current Network Information") }
  IN IF headers = {} THEN ""
     ELSE LET h == CHOOSE i \in headers : \A m \in headers : i <= m
              k == FirstNonBlankAfter(lines, h)
          IN IF k # 0 /\ StartsWithWordChar(lines[k].text)
             THEN Join(StripColon(lines[k].text))
             ELSE ""

\* C24, as stated: the current ssid of the snapshot is the first non-empty
\* line after the header of the current network, its last colon taken off,
\* when that line starts with a letter, a digit, a hyphen or an underscore;
\* it is empty when there is no header, no line after it, or that line starts
\* with another character.
C24_CurrentSsid ==
  ScannedReport
    => /\ scanned[1].value.currentNetwork = ExpectedCurrentSsid(profiler.output)
       /\ currentSSID = scanned[1].value.currentNetwork

\* The variables of the second loop after the first i lines of the report.
StateAfter(lines, i) ==
  SecondPass(SubSeq(lines, 1, i), 1, SecondPassStart, FirstPass(lines, 1, FALSE))

\* Line i is in the section, not empty and not of the form key: value.
IsNonPropertyLine(lines, i) ==
  /\ InOtherSection(lines, i)
  /\ lines[i].text # <<>>
  /\ ~IncludesLabel(lines[i].text, "Other Local Wi-Fi Networks")
  /\ ~hasPropertyFormat(lines[i].text)

\* C25, as stated: in the section of the other networks the network indent
\* is the indent of the first line that is not a property, whatever that
\* indent is, and stays so; a line that is not a property opens a record when
\* it is at the network indent and otherwise changes nothing; a property
\* line keeps the open record's name and pushes nothing; nothing changes from
\* the first line at the left margin that holds a colon.
C25_NetworkIndent ==
  ScannedReport =>
    LET lines == profiler.output
        names == { i \in DOMAIN lines : IsNonPropertyLine(lines, i) }
    IN \A i \in DOMAIN lines :
         LET before == StateAfter(lines, i - 1)
             after == StateAfter(lines, i)
         IN /\ (names # {} /\ InOtherSection(lines, i)
                  /\ \E f \in names : f <= i)
                 => \E f \in names :
                      /\ \A m \in names : f <= m
                      /\ IF IsNonPropertyLine(lines, i)
                         THEN IF lines[i].indent = lines[f].indent
                              THEN after.currentEntry
                                     = [NoEntry EXCEPT
                                          !.ssid = Some(Join(StripColon(lines[i].text)))]
                              ELSE /\ after.currentEntry = before.currentEntry
                                   /\ after.networks = before.networks
                         ELSE /\ after.currentEntry.ssid = before.currentEntry.ssid
                              /\ after.networks = before.networks
            /\ (\E h \in 1..(i - 1) :
                  IncludesLabel(lines[h].text, "Other Local Wi-Fi Networks"))
                 /\ ~InOtherSection(lines, i)
                 => after = before

\* The record a flush makes of an entry when the defaults stand in for the
\* missing values only.
ExpectedRecord(entry, current) ==
  [ssid |-> entry.ssid[1],
   rssi |-> IF entry.rssi # None THEN entry.rssi[1] ELSE -70,
   security |-> IF entry.security # None THEN entry.security[1] ELSE "Unknown",
   channel |-> entry.channel[1],
   bssid |-> IF TruthyString(entry.bssid) THEN <<entry.bssid[1]>>
             ELSE <<entry.ssid[1], "-", entry.channel[1]>>,
   isConnected |-> entry.ssid[1] = current]

\* C26, as stated: every record pushed, at a name line or at the end of the
\* report, has the signal strength, the security and the station id its
\* entry was given, and the defaults -70, "Unknown" and ssid-channel only for
\* what the entry was not given.
C26_DefaultsOnlyWhenMissing ==
  ScannedReport =>
    LET lines == profiler.output
        current == scanned[1].value.currentNetwork
        pushed == PushedNetworks(lines)
        last == StateAfter(lines, Len(lines))
    IN /\ \A i \in DOMAIN lines :
            LET before == StateAfter(lines, i - 1)
                after == StateAfter(lines, i)
            IN Len(after.networks) > Len(before.networks)
                 => after.networks[Len(after.networks)]
                      = ExpectedRecord(before.currentEntry, current)
       /\ Len(pushed) > Len(last.networks)
            => pushed[Len(pushed)] = ExpectedRecord(last.currentEntry, current)

\* C27, as stated: an entry of the section whose name is empty and that has a
\* Channel property yields a record with the empty ssid.
C27_HiddenNetworkKept ==
  ScannedReport =>
    LET lines == profiler.output
    IN \A i \in DOMAIN lines :
         (/\ IsNameLine(lines, i)
          /\ StripColon(lines[i].text) = <<>>
          /\ \E k \in (i + 1)..EntryEnd(lines, i) :
               hasPropertyFormat(lines[k].text) /\ StartsWithLabel(lines[k].text, "Channel"))
           => \E n \in DOMAIN networks : networks[n].ssid = ""

\* C28, as stated: once the latest scan has failed to run system_profiler,
\* the slot does not serve the empty snapshot the scan put in its place: a
\* cache read returns absent.
C28_FailedScanNotCached ==
  (scanned # None /\ scanned[1].status # "ok")
    => getCachedNetworks(cacheSlot, now) = None

\* The password is empty or made of spaces only.
WhitespaceOnly(password) == \A i \in DOMAIN password : password[i] = " "

\* C29: a connect command that fails leaves the password form, the list
\* shown and the cache as they were and ends the attempt, so that the form,
\* if open, takes another password; the end of a successful attempt and a
\* cancel close the form; no attempt that reaches the connect command
\* carries an empty or all-space password.
C29_ReusableAfterFailure ==
  [][ /\ (ConnectStep /\ ~conn'.result[1].success)
           => /\ UNCHANGED <<selectedNetwork, networks, currentSSID, cacheSlot>>
              /\ conn'.at = "done"
              /\ selectedNetwork # None => ENABLED HandleSubmit
      /\ FinishConnect => selectedNetwork' = None /\ conn'.at = "done"
      /\ HandleCancelPassword => selectedNetwork' = None
      /\ (conn'.at = "connecting" /\ conn'.password # None)
           => ~WhitespaceOnly(conn'.password[1]) ]_vars

\* An attempt with a typed password has failed and the form is still open
\* for that network.
C29_Witness ==
  /\ conn.at = "done"
  /\ conn.error # None
  /\ Truthy(conn.password)
  /\ conn.osCalls # <<>>
  /\ selectedNetwork = conn.network
  /\ networks # <<>>

\* C22: an attempt starts with the toast "Connecting to <ssid>..." and only
\* a started attempt runs the connect command; the step that runs it ends
\* the attempt and shows one toast of the result: the success message, or
\* "Connection Failed" with the failure message; nothing else runs the
\* command or ends an attempt.
C22_AttemptAnnounced ==
  [][ /\ (conn'.at = "connecting" /\ conn.at # "connecting")
           => /\ toast' = Toast("Animated",
                                <<"Connecting to", conn'.network[1].ssid, "...">>, <<>>)
              /\ conn'.osCalls = <<>>
      /\ conn'.osCalls # conn.osCalls
           => conn'.osCalls = <<>> \/ (conn.at = "connecting" /\ ConnectStep)
      /\ (conn.at = "connecting" /\ conn'.at # "connecting")
           => /\ ConnectStep
              /\ conn'.result # None
              /\ toast' = IF conn'.result[1].success
                          THEN Toast("Success", conn'.result[1].message, <<>>)
                          ELSE Toast("Failure", <<"Connection Failed">>,
                                     conn'.result[1].message)
      /\ ConnectStep => conn'.at # "connecting" ]_vars

\* An attempt has been announced, has run the command and has been reported
\* as a success.
C22_Witness ==
  /\ conn.at = "succeeded"
  /\ Len(conn.osCalls) = 1
  /\ toast.style = "Success"
  /\ toast.title = <<"Connected to", conn.network[1].ssid>>

\* C23: LocalStorage is never written and never asked for a password, also
\* when version 1.0.0 left one there; the password of every connect command
\* is the escaped text that was typed into the password form, and the
\* password of every QR code is what the Keychain lookup of that network
\* returned.  (The only Keychain command of the extension is the read
\* find-generic-password.)
C23_NoPasswordInLocalStorage ==
  /\ [](/\ conn.lookups = <<>>
        /\ \A i \in DOMAIN conn.osCalls :
             conn.osCalls[i].command.password # None
               => /\ conn.password # None
                  /\ conn.password[1] \in FormInputs
                  /\ conn.osCalls[i].command.password
                       = Some(EscapePassword(conn.password[1]))
        /\ (qrCodeData # None /\ qrCodeData[1].password # <<>>)
             => /\ share.fetched = Some(qrCodeData[1].password)
                /\ share.lookups = <<qrCodeData[1].network.ssid>>)
  /\ [][ /\ localStorage' = localStorage
         /\ (conn'.password # conn.password /\ conn'.password # None) => HandleSubmit
         /\ share'.fetched # share.fetched
              => share'.fetched = None \/ ShareFetch ]_vars

\* LocalStorage holds a password of version 1.0.0 for a network that has
\* been connected to with a typed password.
C23_Witness ==
  /\ conn.network # None
  /\ localStorage[conn.network[1].ssid] # None
  /\ conn.at = "succeeded"
  /\ conn.password # None
  /\ conn.osCalls # <<>>
  /\ conn.osCalls[1].command.password # None

\* C21, as stated: after every Keychain lookup, of the share action and of
\* the password form, the direct activation is run and the scripted one only
\* after the direct one threw; whatever the two do, a lookup that found a
\* password is used: the share goes on to the QR code with the success toast,
\* the form puts the password in its field with the success toast.
C21_FocusFailureSwallowed ==
  /\ [](/\ share.lookups # <<>> => share.focus # <<>> /\ share.focus[1].command = "open -a Raycast"
        /\ Len(share.focus) > 1 => share.focus[1].threw
        /\ form.at = "done" => form.focus # <<>> /\ form.focus[1].command = "open -a Raycast"
        /\ Len(form.focus) > 1 => form.focus[1].threw
        /\ (form.at = "done" /\ Truthy(form.fetched)) => form.password = form.fetched[1])
  /\ [][ /\ (ShareFetch /\ Truthy(share'.fetched))
              => share'.at = "ready" /\ toast'.style = "Success"
         /\ (FetchFromKeychain /\ Truthy(form'.fetched))
              => toast'.style = "Success" ]_vars

\* The shell has read the text as one argument, character for character.
ReadExactly(read, text) == read.status = "ok" /\ read.arg = text

\* C30, as stated: in the connect command the shell reads the interface
\* preference and the network name exactly as they are, and in the Keychain
\* lookup the network name, whatever double quote, dollar or backslash they
\* hold.
C30_MetacharactersNeutralised ==
  /\ \A i \in DOMAIN call.osCalls :
       call.op = "connectCommand"
         => /\ ReadExactly(call.osCalls[i].received.interface,
                           call.osCalls[i].command.interface)
            /\ ReadExactly(call.osCalls[i].received.ssid, call.osCalls[i].command.ssid)
  /\ \A i \in DOMAIN call.lookups :
       call.op = "lookupCommand"
         => ReadExactly(call.lookups[i].received.ssid, call.lookups[i].command.ssid)

====
